---- MODULE Spec2Model ----
(***************************************************************************)
(* Model of SalesDataCleaner (src/SalesDataCleaner.py): the scalar parsers *)
(* used as read_csv converters and the cleaning pipeline run by clean().   *)
(*                                                                         *)
(* Text is a sequence of one-character strings.  Numbers are fixed-point:  *)
(* a numeric value n stands for n / Cent, so 120.0 is 120 * Cent; every    *)
(* decimal text of the model has at most two fraction digits.              *)
(***************************************************************************)
EXTENDS Integers, Sequences, FiniteSets, TLC

VARIABLES
    csv,          \* the rows of the file at self.url (raw text cells)
    sales_data,   \* self.sales_data: None or a frame
    cleaned,      \* self.cleaned
    pc,           \* position inside clean(): "idle" or the next pipeline step
    clean_calls,  \* clean() calls made so far
    steps_run,    \* the pipeline steps the latest clean() call has completed
    dedup_in,     \* the frame as it entered remove_duplicate_records
    last_get,     \* what the latest get_cleaned_data() returned
    csv_out,      \* the file write_to_csv() writes: absent or its rows
    p_fn,         \* scalar parser applied last ("none" before any call)
    p_arg,        \* its argument
    p_ret         \* what it returned or raised

vars ==
    <<csv, sales_data, cleaned, pc, clean_calls, steps_run, dedup_in, last_get, csv_out,
      p_fn, p_arg, p_ret>>

----------------------------------------------------------------------------
(* Bounds *)

MaxRows == 3      \* rows of the input file
MaxCalls == 2     \* clean() calls in one behaviour
MaxTextLen == 3   \* length of the generated probe texts of the parsers

Cent == 10 * 10   \* fixed-point scale of numeric values

----------------------------------------------------------------------------
(* Python values *)

None == [t |-> "null"]                  \* None and NaN: pandas' null
PyBool(b) == [t |-> "bool", b |-> b]
PyNum(n) == [t |-> "num", n |-> n]      \* n in 1/Cent units
PyStr(s) == [t |-> "str", s |-> s]
Raised(e) == [t |-> "raise", exc |-> e]

isna(v) == v.t = "null"

\* Python's v == 0.0 for the values above (False == 0.0 is True, NaN == 0.0 is False)
PyEqZero(v) ==
    CASE v.t = "num" -> v.n = 0
      [] v.t = "bool" -> v.b = FALSE
      [] OTHER -> FALSE

----------------------------------------------------------------------------
(* Text *)

Digits == {"0", "1", "2", "3", "4", "5", "6", "7", "8", "9"}
Whitespace == {" "}

DigitVal(c) ==
    CASE c = "0" -> 0 [] c = "1" -> 1 [] c = "2" -> 2 [] c = "3" -> 3
      [] c = "4" -> 4 [] c = "5" -> 5 [] c = "6" -> 6 [] c = "7" -> 7
      [] c = "8" -> 8 [] c = "9" -> 9

LowerCase == <<"a", "b", "c", "d", "e", "f", "g", "h", "i", "j", "k", "l", "m",
               "n", "o", "p", "q", "r", "s", "t", "u", "v", "w", "x", "y", "z">>
UpperCase == <<"A", "B", "C", "D", "E", "F", "G", "H", "I", "J", "K", "L", "M",
               "N", "O", "P", "Q", "R", "S", "T", "U", "V", "W", "X", "Y", "Z">>

\* str.upper()
UpperChar(c) ==
    IF \E i \in 1..Len(LowerCase) : LowerCase[i] = c
    THEN UpperCase[CHOOSE i \in 1..Len(LowerCase) : LowerCase[i] = c]
    ELSE c
upper(s) == [i \in 1..Len(s) |-> UpperChar(s[i])]

\* str.isdigit(): at least one character and all of them digits
isdigit(s) == s # <<>> /\ \A i \in 1..Len(s) : s[i] \in Digits

RECURSIVE DigitsToInt(_)
DigitsToInt(s) ==
    IF s = <<>> THEN 0
    ELSE 10 * DigitsToInt(SubSeq(s, 1, Len(s) - 1)) + DigitVal(s[Len(s)])

RECURSIVE LStrip(_)
LStrip(s) == IF s # <<>> /\ s[1] \in Whitespace THEN LStrip(Tail(s)) ELSE s
RECURSIVE RStrip(_)
RStrip(s) ==
    IF s # <<>> /\ s[Len(s)] \in Whitespace THEN RStrip(SubSeq(s, 1, Len(s) - 1)) ELSE s
strip(s) == RStrip(LStrip(s))

\* length of the leading run of non-whitespace characters
RECURSIVE WordLen(_)
WordLen(s) == IF s = <<>> \/ s[1] \in Whitespace THEN 0 ELSE 1 + WordLen(Tail(s))

\* str.split(): the maximal runs of non-whitespace characters
RECURSIVE split(_)
split(s) ==
    IF s = <<>> THEN <<>>
    ELSE IF s[1] \in Whitespace THEN split(Tail(s))
    ELSE <<SubSeq(s, 1, WordLen(s))>> \o split(SubSeq(s, WordLen(s) + 1, Len(s)))

\* index of the first occurrence of c in s, 0 when there is none
RECURSIVE IndexOf(_, _)
IndexOf(s, c) ==
    IF s = <<>> THEN 0
    ELSE IF s[1] = c THEN 1
    ELSE IF IndexOf(Tail(s), c) = 0 THEN 0 ELSE 1 + IndexOf(Tail(s), c)

\* str.replace(c, '')
RECURSIVE Remove(_, _)
Remove(s, c) ==
    IF s = <<>> THEN <<>>
    ELSE IF s[1] = c THEN Remove(Tail(s), c) ELSE <<s[1]>> \o Remove(Tail(s), c)

Unsigned(s) == IF s # <<>> /\ s[1] \in {"+", "-"} THEN Tail(s) ELSE s
Sign(s) == IF s # <<>> /\ s[1] = "-" THEN -1 ELSE 1

\* int(str): surrounding whitespace, an optional sign, digits; else ValueError
\* (the texts of the model hold no underscore)
PyInt(x) ==
    LET body == Unsigned(strip(x))
    IN  IF isdigit(body)
        THEN [ok |-> TRUE, n |-> Sign(strip(x)) * DigitsToInt(body)]
        ELSE [ok |-> FALSE, n |-> 0]

\* the first two fraction digits, as hundredths
Hundredths(f) ==
    IF f = <<>> THEN 0
    ELSE IF Len(f) = 1 THEN 10 * DigitVal(f[1])
    ELSE 10 * DigitVal(f[1]) + DigitVal(f[2])

\* float(str): surrounding whitespace, an optional sign, digits with an optional
\* fraction ("12", "12.", "12.5", ".5"); else ValueError.  n is in 1/Cent units.
\* (The texts of the model hold no exponent, underscore, "inf" or "nan".)
PyFloat(x) ==
    LET body == Unsigned(strip(x))
        dot == IndexOf(body, ".")
        whole == IF dot = 0 THEN body ELSE SubSeq(body, 1, dot - 1)
        frac == IF dot = 0 THEN <<>> ELSE SubSeq(body, dot + 1, Len(body))
        wellFormed ==
            /\ whole = <<>> \/ isdigit(whole)
            /\ frac = <<>> \/ isdigit(frac)
            /\ whole # <<>> \/ frac # <<>>
    IN  IF wellFormed
        THEN [ok |-> TRUE,
              n |-> Sign(strip(x)) * (DigitsToInt(whole) * Cent + Hundredths(frac))]
        ELSE [ok |-> FALSE, n |-> 0]

----------------------------------------------------------------------------
(* Scalar parsers *)

\* re.sub(r'^\D+', '', x)
RECURSIVE DropLeadingNonDigits(_)
DropLeadingNonDigits(x) ==
    IF x # <<>> /\ x[1] \notin Digits THEN DropLeadingNonDigits(Tail(x)) ELSE x

\* re.sub(r'\D+$', '', x)
RECURSIVE DropTrailingNonDigits(_)
DropTrailingNonDigits(x) ==
    IF x # <<>> /\ x[Len(x)] \notin Digits
    THEN DropTrailingNonDigits(SubSeq(x, 1, Len(x) - 1))
    ELSE x

\* re.sub(r'€(.|\D)*$', '', x): everything from the first currency sign on
CutAtCurrency(x) ==
    IF IndexOf(x, "€") = 0 THEN x ELSE SubSeq(x, 1, IndexOf(x, "€") - 1)

price_converter(x) ==
    LET x1 == DropTrailingNonDigits(DropLeadingNonDigits(x))
        x2 == CutAtCurrency(x1)
        x3 == Remove(x2, ",")
    IN  IF PyFloat(x3).ok THEN PyNum(PyFloat(x3).n) ELSE None

bool_or_keep(x) ==
    IF x.t = "str"
    THEN IF x.s = <<"1">> \/ upper(x.s) = <<"T", "R", "U", "E">> THEN PyBool(TRUE)
         ELSE IF x.s = <<"0">> \/ upper(x.s) = <<"F", "A", "L", "S", "E">> THEN PyBool(FALSE)
         ELSE None
    \* x.isnumeric() exists on str only; AttributeError is not the ValueError caught
    ELSE Raised("AttributeError")

float_or_zero(x) ==
    IF PyFloat(x).ok THEN PyNum(PyFloat(x).n)
    ELSE IF x \in {<<"T", "r", "u", "e">>, <<"T", "R", "U", "E">>} THEN PyNum(0)
    ELSE None

float_or_text_to_nan(x) ==
    IF PyFloat(x).ok THEN PyNum(PyFloat(x).n) ELSE None

DigitTokens(x) == SelectSeq(split(x), isdigit)

\* area_remove_m2 with the several-token case folded into null
area_remove_m2_collapsed(x) ==
    IF PyInt(x).ok THEN PyNum(PyInt(x).n * Cent)
    ELSE IF Len(DigitTokens(x)) = 1 THEN PyNum(DigitsToInt(DigitTokens(x)[1]) * Cent)
    ELSE None

area_remove_m2(x) ==
    IF PyInt(x).ok THEN PyNum(PyInt(x).n * Cent)
    ELSE IF Len(DigitTokens(x)) = 1 THEN PyNum(DigitsToInt(DigitTokens(x)[1]) * Cent)
    ELSE IF Len(DigitTokens(x)) > 1 THEN PyBool(FALSE)
    ELSE None

----------------------------------------------------------------------------
(* Frames: self.sales_data once read.  A row maps "index" to its pandas     *)
(* index label and every column name to the cell's value.                  *)

Frame(rows) == [t |-> "frame", rows |-> rows]
NoFrame == [t |-> "unset"]

Columns(row) == DOMAIN row \ {"index"}
DropColumn(row, c) == [k \in DOMAIN row \ {c} |-> row[k]]
SetColumn(row, c, v) == [k \in DOMAIN row \cup {c} |-> IF k = c THEN v ELSE row[k]]
DropColumnOfRows(rows, c) == [i \in 1..Len(rows) |-> DropColumn(rows[i], c)]

----------------------------------------------------------------------------
(* import_and_format: the typed reader *)

IntColumns == {"source"}
BoolColumns == {"house_is"}
FloatColumns == {"rooms_number", "garden_area", "land_surface", "facades_number"}
StrColumns == {"hyperlink", "locality", "postcode", "property_subtype", "sale",
               "building_state"}
BoolOrKeepColumns == {"kitchen_has", "furnished", "open_fire", "terrace", "garden",
                      "swimming_pool_has"}
CsvColumns ==
    IntColumns \cup BoolColumns \cup FloatColumns \cup StrColumns \cup BoolOrKeepColumns
        \cup {"terrace_area", "land_plot_surface", "area", "price"}

\* na_identifiers, and the empty cell of read_csv's default markers
na_identifiers == {<<"N", "A">>, <<"N", "o", "n", "e">>, <<"N", "o", "t", " ", "s", "p", "e", "c", "i", "f", "i", "e", "d">>, <<"N", "a", "N">>, <<"N", "A", "N">>, <<>>}

\* one cell as read_csv types it: a converter where the column has one, the
\* declared dtype otherwise (a cell the dtype cannot hold fails the read)
ReadCell(col, x) ==
    CASE col \in BoolOrKeepColumns -> bool_or_keep(PyStr(x))
      [] col = "terrace_area" -> float_or_zero(x)
      [] col = "land_plot_surface" -> float_or_text_to_nan(x)
      [] col = "area" -> area_remove_m2(x)
      [] col = "price" -> price_converter(x)
      [] col \in StrColumns -> IF x \in na_identifiers THEN None ELSE PyStr(x)
      [] col \in FloatColumns ->
            IF x \in na_identifiers THEN None
            ELSE IF PyFloat(x).ok THEN PyNum(PyFloat(x).n)
            ELSE Raised("ValueError")
      [] col \in IntColumns ->
            IF x \notin na_identifiers /\ PyInt(x).ok THEN PyNum(PyInt(x).n * Cent)
            ELSE Raised("ValueError")
      [] col \in BoolColumns ->
            IF x \in {<<"T", "r", "u", "e">>, <<"T", "R", "U", "E">>, <<"t", "r", "u", "e">>} THEN PyBool(TRUE)
            ELSE IF x \in {<<"F", "a", "l", "s", "e">>, <<"F", "A", "L", "S", "E">>, <<"f", "a", "l", "s", "e">>} THEN PyBool(FALSE)
            ELSE Raised("ValueError")

ReadRow(raw, i) ==
    [k \in CsvColumns \cup {"index"} |-> IF k = "index" THEN i ELSE ReadCell(k, raw[k])]

read_csv_raises(file) ==
    \E i \in 1..Len(file), k \in CsvColumns : ReadCell(k, file[i][k]).t = "raise"

\* pandas labels the rows 0, 1, ... in file order
read_csv(file) == [i \in 1..Len(file) |-> ReadRow(file[i], i - 1)]

----------------------------------------------------------------------------
(* Column transforms and row filters *)

\* re.findall('[1-9][0-9][0-9][0-9]', text): the start of the first match, or 0
RECURSIVE FirstPostcodeAt(_, _)
FirstPostcodeAt(x, i) ==
    IF i + 3 > Len(x) THEN 0
    ELSE IF /\ x[i] \in Digits \ {"0"}
            /\ x[i + 1] \in Digits /\ x[i + 2] \in Digits /\ x[i + 3] \in Digits
         THEN i
         ELSE FirstPostcodeAt(x, i + 1)

\* re.findall on a locality that is not text raises TypeError
extract_postcodes_raises(row) == isna(row.postcode) /\ row.locality.t # "str"

extract_postcodes(row) ==
    IF isna(row.postcode)
    THEN LET at == FirstPostcodeAt(row.locality.s, 1)
         IN  SetColumn(row, "postcode",
                 IF at > 0 THEN PyStr(SubSeq(row.locality.s, at, at + 3)) ELSE None)
    ELSE row

merge_postcodes_localities_columns(rows) ==
    DropColumnOfRows([i \in 1..Len(rows) |-> extract_postcodes(rows[i])], "locality")

\* int(postcode) raises ValueError on text that is no integer
to_region_raises(postcode) == ~isna(postcode) /\ ~PyInt(postcode.s).ok

\* to_region with the Brussels range closed at 1300
to_region_brussels_1300(postcode) ==
    IF isna(postcode) THEN None
    ELSE LET p == PyInt(postcode.s).n
         IN  IF 1000 <= p /\ p <= 1300 THEN PyStr(<<"B">>)
             ELSE IF (1300 <= p /\ p <= 1499) \/ (4000 <= p /\ p <= 7999) THEN PyStr(<<"W">>)
             ELSE PyStr(<<"F">>)

to_region(postcode) ==
    IF isna(postcode) THEN None
    ELSE LET p == PyInt(postcode.s).n
         IN  IF 1000 <= p /\ p <= 1299 THEN PyStr(<<"B">>)
             ELSE IF (1300 <= p /\ p <= 1499) \/ (4000 <= p /\ p <= 7999) THEN PyStr(<<"W">>)
             ELSE PyStr(<<"F">>)

add_region_column(rows) ==
    [i \in 1..Len(rows) |-> SetColumn(rows[i], "region", to_region(rows[i].postcode))]

to_be_deleted_subtypes == {
    <<"W", "o", "h", "n", "u", "n", "g">>, <<"T", "r", "i", "p", "l", "e", "x", "w", "o", "h", "n", "u", "n", "g">>, <<"S", "o", "n", "s", "t", "i", "g", "e">>, <<"L", "o", "f", "t", " ", "/", " ", "�", "t", "i", "c", "o">>, <<"L", "o", "f", "t", " ", "/", " ", "D", "a", "c", "h", "g", "e", "s", "c", "h", "o", "s", "s">>,
    <<"L", "o", "f", "t", " ", "/", " ", "A", "t", "t", "i", "c">>, <<"G", "e", "w", "e", "r", "b", "e">>, <<"E", "t", "a", "g", "e", "n", "w", "o", "h", "n", "u", "n", "g">>, <<"E", "r", "d", "g", "e", "s", "c", "h", "o", "s", "s">>, <<"A", "t", "t", "i", "c", "o">>,
    <<"A", "p", "p", "a", "r", "t", "a", "m", "e", "n", "t", "o", " ", "d", "u", "p", "l", "e", "x">>, <<"A", "p", "a", "r", "t", "a", "m", "e", "n", "t", "o">>, <<"A", "l", "t", "b", "a", "u", "w", "o", "h", "n", "u", "n", "g">>, <<"H", "O", "U", "S", "E", "_", "G", "R", "O", "U", "P">>,
    <<"A", "P", "A", "R", "T", "M", "E", "N", "T", "_", "G", "R", "O", "U", "P">>}

\* sub in text
Contains(x, sub) ==
    \E i \in 1..(Len(x) - Len(sub) + 1) : SubSeq(x, i, i + Len(sub) - 1) = sub

\* the three passes of clean_property_subtype_column on one cell
clean_property_subtype(v) ==
    IF v.t = "str" /\ v.s \in to_be_deleted_subtypes THEN None
    ELSE IF v.t \in {"num", "null"} THEN None
    ELSE IF v.t = "str" /\ Contains(v.s, <<"s", "q", "f", "t">>) THEN None
    ELSE v

clean_property_subtype_column(rows) ==
    [i \in 1..Len(rows) |->
        SetColumn(rows[i], "property_subtype",
                  clean_property_subtype(rows[i].property_subtype))]

clean_price_column(rows) ==
    [i \in 1..Len(rows) |->
        IF PyEqZero(rows[i].price) THEN SetColumn(rows[i], "price", None) ELSE rows[i]]

\* the row-wise apply of the merge step re-infers the dtypes, so a sale column
\* holding no text at all is float64 and its .str accessor raises AttributeError
clean_sale_column_raises(rows) ==
    rows # <<>> /\ \A i \in 1..Len(rows) : isna(rows[i].sale)

\* str.contains('annuity', na=False)
IsAnnuity(row) == row.sale.t = "str" /\ Contains(row.sale.s, <<"a", "n", "n", "u", "i", "t", "y">>)
NotAnnuity(row) == ~IsAnnuity(row)

clean_sale_column(rows) == SelectSeq(rows, NotAnnuity)

clean_area_column(rows) ==
    [i \in 1..Len(rows) |->
        IF PyEqZero(rows[i].area) THEN SetColumn(rows[i], "area", None) ELSE rows[i]]

\* Python's v > 0.0 (NaN > 0.0 is False)
PyGtZero(v) == v.t = "num" /\ v.n > 0

copy_from_land_surface(row) ==
    IF PyEqZero(row.area) /\ PyGtZero(row.land_surface)
    THEN SetColumn(row, "area", row.land_surface)
    ELSE row

clean_area_land_surface_columns(rows) ==
    [i \in 1..Len(rows) |-> copy_from_land_surface(rows[i])]

categorize_state(value) ==
    IF value.t # "str" THEN None
    ELSE IF value.s \in {<<"T", "O", "_", "R", "E", "N", "O", "V", "A", "T", "E">>, <<"T", "O", "_", "B", "E", "_", "D", "O", "N", "E", "_", "U", "P">>, <<"T", "O", "_", "R", "E", "S", "T", "O", "R", "E">>, <<"o", "l", "d">>,
                         <<"T", "o", " ", "r", "e", "n", "o", "v", "a", "t", "e">>, <<"T", "o", " ", "b", "e", " ", "d", "o", "n", "e", " ", "u", "p">>, <<"T", "o", " ", "r", "e", "s", "t", "o", "r", "e">>}
         THEN PyStr(<<"t", "o", "_", "r", "e", "n", "o", "v", "a", "t", "e">>)
    ELSE IF value.s \in {<<"G", "O", "O", "D">>, <<"G", "o", "o", "d">>, <<"A", "S", "_", "N", "E", "W">>, <<"A", "s", " ", "n", "e", "w">>} THEN PyStr(<<"g", "o", "o", "d">>)
    ELSE IF value.s \in {<<"J", "U", "S", "T", "_", "R", "E", "N", "O", "V", "A", "T", "E", "D">>, <<"J", "u", "s", "t", " ", "r", "e", "n", "o", "v", "a", "t", "e", "d">>} THEN PyStr(<<"r", "e", "n", "o", "v", "a", "t", "e", "d">>)
    ELSE IF value.s \in {<<"N", "e", "w">>} THEN PyStr(<<"n", "e", "w">>)
    ELSE None

clean_building_state_column(rows) ==
    [i \in 1..Len(rows) |->
        DropColumn(SetColumn(rows[i], "building_state_agg",
                             categorize_state(rows[i].building_state)),
                   "building_state")]

\* the subset drop_duplicates compares
DuplicateKey(row) == <<row.postcode, row.house_is, row.price, row.area>>

\* drop_duplicates(subset=..., keep='last')
remove_duplicate_records_keep_last(rows) ==
    LET IsLast(i) == \A j \in (i + 1)..Len(rows) : DuplicateKey(rows[j]) # DuplicateKey(rows[i])
        RECURSIVE Keep(_)
        Keep(i) ==
            IF i > Len(rows) THEN <<>>
            ELSE (IF IsLast(i) THEN <<rows[i]>> ELSE <<>>) \o Keep(i + 1)
    IN  Keep(1)

\* drop_duplicates(subset=...): keep='first' is the default
remove_duplicate_records(rows) ==
    LET RECURSIVE Keep(_, _)
        Keep(i, seen) ==
            IF i > Len(rows) THEN <<>>
            ELSE IF DuplicateKey(rows[i]) \in seen THEN Keep(i + 1, seen)
            ELSE <<rows[i]>> \o Keep(i + 1, seen \cup {DuplicateKey(rows[i])})
    IN  Keep(1, {})

HasNoNa(row) == \A c \in Columns(row) : ~isna(row[c])

remove_na_records(rows) == SelectSeq(rows, HasNoNa)

rename_kitchen_has(rows) ==
    [i \in 1..Len(rows) |->
        DropColumn(SetColumn(rows[i], "equipped_kitchen_has", rows[i].kitchen_has),
                   "kitchen_has")]

\* x == 0 or x > 4
FacadesOutOfRange(v) == v.t = "num" /\ (v.n = 0 \/ v.n > 4 * Cent)

clean_facades_number_column(rows) ==
    [i \in 1..Len(rows) |->
        IF FacadesOutOfRange(rows[i].facades_number)
        THEN SetColumn(rows[i], "facades_number", None)
        ELSE rows[i]]

----------------------------------------------------------------------------
(* The input files of the model: one to MaxRows rows, each the complete row *)
(* BaseRow with one group of cells replaced.                               *)

BaseRow == [
    source |-> <<"1">>, hyperlink |-> <<"h">>, locality |-> <<"G", "e", "n", "t">>, postcode |-> <<"1", "0", "5", "0">>,
    house_is |-> <<"T", "r", "u", "e">>, property_subtype |-> <<"H", "O", "U", "S", "E">>, sale |-> <<"f", "o", "r", " ", "s", "a", "l", "e">>,
    rooms_number |-> <<"3">>, garden_area |-> <<"0">>, land_surface |-> <<"1", "2", "0", ".", "0">>,
    facades_number |-> <<"2">>, building_state |-> <<"G", "o", "o", "d">>, kitchen_has |-> <<"1">>,
    furnished |-> <<"0">>, open_fire |-> <<"F", "a", "l", "s", "e">>, terrace |-> <<"T", "R", "U", "E">>, garden |-> <<"t", "r", "u", "e">>,
    swimming_pool_has |-> <<"0">>, terrace_area |-> <<"T", "r", "u", "e">>, land_plot_surface |-> <<"N", "A">>,
    area |-> <<"8", "5">>, price |-> <<"2", "5", "0", "0", "0", "0">>]

AreaTexts == {<<"0">>, <<"-", "5">>, <<"8", "5", " ", "m", "2">>, <<"1", "2", " ", "x", " ", "1", "0", " ", "m">>, <<"1", "2", ".", "5">>}
PriceTexts == {<<"€", " ", "1", ",", "2", "3", "4", ".", "0", "0", " ", "e", "n", "d">>, <<"n", "o", " ", "d", "i", "g", "i", "t", "s">>, <<"0">>}
FacadesTexts == {<<"0">>, <<"5">>, <<"N", "A">>}
LocalityTexts == {<<"N", "A">>, <<"G", "e", "n", "t">>, <<"1", "4", "0", "0", " ", "N", "i", "v", "e", "l", "l", "e", "s">>, <<"L", "i", "e", "g", "e", " ", "4", "0", "0", "0", "1">>}
PostcodeTexts == {<<"1", "2", "9", "9">>, <<"1", "3", "0", "0">>, <<"1", "4", "9", "9">>, <<"1", "5", "0", "0">>, <<"2", "0", "0", "0">>, <<"4", "0", "0", "0">>, <<"4", "5", "0", "0">>,
                  <<"7", "9", "9", "9">>, <<"8", "0", "0", "0">>, <<"9", "9", "9", "9">>, <<"1", "2", "a">>}

RawRows ==
    {BaseRow}
        \cup {[BaseRow EXCEPT !.area = a] : a \in AreaTexts}
        \cup {[BaseRow EXCEPT !.area = <<"0">>, !.land_surface = l] : l \in {<<"0">>, <<"N", "A">>}}
        \cup {[BaseRow EXCEPT !.price = p] : p \in PriceTexts}
        \cup {[BaseRow EXCEPT !.facades_number = f] : f \in FacadesTexts}
        \cup {[BaseRow EXCEPT !.postcode = <<"N", "A">>, !.locality = l] : l \in LocalityTexts}
        \cup {[BaseRow EXCEPT !.postcode = p] : p \in PostcodeTexts}
        \cup {[BaseRow EXCEPT !.house_is = h] : h \in {<<"F", "a", "l", "s", "e">>, <<"N", "A">>}}
        \cup {[BaseRow EXCEPT !.rooms_number = r] : r \in {<<"2">>, <<"N", "A">>}}
        \cup {[BaseRow EXCEPT !.sale = s] : s \in {<<"l", "i", "f", "e", " ", "a", "n", "n", "u", "i", "t", "y">>, <<"N", "A">>}}
        \cup {[BaseRow EXCEPT !.kitchen_has = <<"m", "a", "y", "b", "e">>],
              [BaseRow EXCEPT !.building_state = <<"0">>],
              [BaseRow EXCEPT !.property_subtype = <<"1", "2", "0", "0", " ", "s", "q", "f", "t">>]}

\* the rows that interact with an earlier row: duplicates of BaseRow (the same
\* cells, other cells, incomplete, annuity) and a complete row with another key
FollowRows == {
    BaseRow,
    [BaseRow EXCEPT !.rooms_number = <<"2">>],
    [BaseRow EXCEPT !.rooms_number = <<"N", "A">>],
    [BaseRow EXCEPT !.sale = <<"l", "i", "f", "e", " ", "a", "n", "n", "u", "i", "t", "y">>],
    [BaseRow EXCEPT !.postcode = <<"4", "5", "0", "0">>]}

\* any row first, then rows of FollowRows
InputFiles ==
    UNION {{f \in [1..n -> RawRows] : \A i \in 2..n : f[i] \in FollowRows} : n \in 1..MaxRows}

----------------------------------------------------------------------------
(* SalesDataCleaner *)

\* __init__, with the file at self.url chosen
Init ==
    /\ csv \in InputFiles
    /\ sales_data = None
    /\ cleaned = FALSE
    /\ pc = "idle"
    /\ clean_calls = 0
    /\ steps_run = <<>>
    /\ dedup_in = NoFrame
    /\ last_get = NoFrame
    /\ csv_out = NoFrame
    /\ p_fn = "none"
    /\ p_arg = None
    /\ p_ret = None

parserVars == <<p_fn, p_arg, p_ret>>

\* a step returned: self.sales_data is the new frame and clean() goes on
Returns(step, next, rows) ==
    /\ sales_data' = Frame(rows)
    /\ steps_run' = Append(steps_run, step)
    /\ pc' = next

\* a step raised: the exception leaves clean() with self.sales_data as it was
Raises ==
    /\ pc' = "idle"
    /\ UNCHANGED <<sales_data, steps_run>>

\* get_cleaned_data without the test of the flag
get_cleaned_data_unguarded == sales_data

get_cleaned_data == IF cleaned THEN sales_data ELSE None

GetCleanedData ==
    /\ pc = "idle"
    /\ last_get' = get_cleaned_data
    /\ UNCHANGED <<csv, sales_data, cleaned, pc, clean_calls, steps_run, dedup_in,
                   csv_out, parserVars>>

\* to_csv(filepath, index=False): the rows without their index labels
to_csv(frame) == Frame(DropColumnOfRows(frame.rows, "index"))

WriteToCsv ==
    /\ pc = "idle"
    /\ csv_out' = IF cleaned THEN to_csv(sales_data) ELSE csv_out
    /\ UNCHANGED <<csv, sales_data, cleaned, pc, clean_calls, steps_run, dedup_in,
                   last_get, parserVars>>

\* clean() without the test of the flag
clean_guard_always == TRUE

\* if not self.cleaned
clean_guard == ~cleaned

Clean ==
    /\ pc = "idle"
    /\ clean_calls < MaxCalls
    /\ clean_calls' = clean_calls + 1
    /\ IF clean_guard
       THEN /\ pc' = "import_and_format"
            /\ steps_run' = <<>>
            /\ dedup_in' = NoFrame
       ELSE UNCHANGED <<pc, steps_run, dedup_in>>
    /\ UNCHANGED <<csv, sales_data, cleaned, last_get, csv_out, parserVars>>

stepFrame == <<csv, cleaned, clean_calls, dedup_in, last_get, csv_out, parserVars>>

ImportAndFormat ==
    /\ pc = "import_and_format"
    /\ IF read_csv_raises(csv)
       THEN Raises
       ELSE Returns("import_and_format", "delete_hyperlink_column", read_csv(csv))
    /\ UNCHANGED stepFrame

DeleteHyperlinkColumn ==
    /\ pc = "delete_hyperlink_column"
    /\ Returns("delete_hyperlink_column", "delete_land_plot_surface_column",
               DropColumnOfRows(sales_data.rows, "hyperlink"))
    /\ UNCHANGED stepFrame

DeleteLandPlotSurfaceColumn ==
    /\ pc = "delete_land_plot_surface_column"
    /\ Returns("delete_land_plot_surface_column", "merge_postcodes_localities_columns",
               DropColumnOfRows(sales_data.rows, "land_plot_surface"))
    /\ UNCHANGED stepFrame

MergePostcodesLocalitiesColumns ==
    /\ pc = "merge_postcodes_localities_columns"
    /\ IF \E i \in 1..Len(sales_data.rows) : extract_postcodes_raises(sales_data.rows[i])
       THEN Raises
       ELSE Returns("merge_postcodes_localities_columns", "add_region_column",
                    merge_postcodes_localities_columns(sales_data.rows))
    /\ UNCHANGED stepFrame

AddRegionColumn ==
    /\ pc = "add_region_column"
    /\ IF \E i \in 1..Len(sales_data.rows) : to_region_raises(sales_data.rows[i].postcode)
       THEN Raises
       ELSE Returns("add_region_column", "clean_property_subtype_column",
                    add_region_column(sales_data.rows))
    /\ UNCHANGED stepFrame

CleanPropertySubtypeColumn ==
    /\ pc = "clean_property_subtype_column"
    /\ Returns("clean_property_subtype_column", "clean_price_column",
               clean_property_subtype_column(sales_data.rows))
    /\ UNCHANGED stepFrame

CleanPriceColumn ==
    /\ pc = "clean_price_column"
    /\ Returns("clean_price_column", "clean_sale_column", clean_price_column(sales_data.rows))
    /\ UNCHANGED stepFrame

CleanSaleColumn ==
    /\ pc = "clean_sale_column"
    /\ IF clean_sale_column_raises(sales_data.rows)
       THEN Raises
       ELSE Returns("clean_sale_column", "delete_sale_column",
                    clean_sale_column(sales_data.rows))
    /\ UNCHANGED stepFrame

DeleteSaleColumn ==
    /\ pc = "delete_sale_column"
    /\ Returns("delete_sale_column", "clean_area_column",
               DropColumnOfRows(sales_data.rows, "sale"))
    /\ UNCHANGED stepFrame

CleanAreaColumn ==
    /\ pc = "clean_area_column"
    /\ Returns("clean_area_column", "clean_area_land_surface_columns",
               clean_area_column(sales_data.rows))
    /\ UNCHANGED stepFrame

CleanAreaLandSurfaceColumns ==
    /\ pc = "clean_area_land_surface_columns"
    /\ Returns("clean_area_land_surface_columns", "clean_building_state_column",
               clean_area_land_surface_columns(sales_data.rows))
    /\ UNCHANGED stepFrame

CleanBuildingStateColumn ==
    /\ pc = "clean_building_state_column"
    /\ Returns("clean_building_state_column", "remove_duplicate_records",
               clean_building_state_column(sales_data.rows))
    /\ UNCHANGED stepFrame

RemoveDuplicateRecords ==
    /\ pc = "remove_duplicate_records"
    /\ Returns("remove_duplicate_records", "remove_na_records",
               remove_duplicate_records(sales_data.rows))
    /\ dedup_in' = sales_data
    /\ UNCHANGED <<csv, cleaned, clean_calls, last_get, csv_out, parserVars>>

RemoveNaRecords ==
    /\ pc = "remove_na_records"
    /\ Returns("remove_na_records", "rename", remove_na_records(sales_data.rows))
    /\ UNCHANGED stepFrame

RenameKitchenHas ==
    /\ pc = "rename"
    /\ Returns("rename", "clean_facades_number_column", rename_kitchen_has(sales_data.rows))
    /\ UNCHANGED stepFrame

CleanFacadesNumberColumn ==
    /\ pc = "clean_facades_number_column"
    /\ Returns("clean_facades_number_column", "set_cleaned",
               clean_facades_number_column(sales_data.rows))
    /\ UNCHANGED stepFrame

\* self.cleaned = True, and clean() returns
SetCleaned ==
    /\ pc = "set_cleaned"
    /\ cleaned' = TRUE
    /\ pc' = "idle"
    /\ UNCHANGED <<csv, sales_data, clean_calls, steps_run, dedup_in, last_get, csv_out,
                   parserVars>>

Next ==
    \/ Clean
    \/ ImportAndFormat
    \/ DeleteHyperlinkColumn
    \/ DeleteLandPlotSurfaceColumn
    \/ MergePostcodesLocalitiesColumns
    \/ AddRegionColumn
    \/ CleanPropertySubtypeColumn
    \/ CleanPriceColumn
    \/ CleanSaleColumn
    \/ DeleteSaleColumn
    \/ CleanAreaColumn
    \/ CleanAreaLandSurfaceColumns
    \/ CleanBuildingStateColumn
    \/ RemoveDuplicateRecords
    \/ RemoveNaRecords
    \/ RenameKitchenHas
    \/ CleanFacadesNumberColumn
    \/ SetCleaned
    \/ GetCleanedData
    \/ WriteToCsv

Spec == Init /\ [][Next]_vars

----------------------------------------------------------------------------
(* Claims about the pipeline *)

PipelineOrder == <<
    "import_and_format", "delete_hyperlink_column", "delete_land_plot_surface_column",
    "merge_postcodes_localities_columns", "add_region_column",
    "clean_property_subtype_column", "clean_price_column", "clean_sale_column",
    "delete_sale_column", "clean_area_column", "clean_area_land_surface_columns",
    "clean_building_state_column", "remove_duplicate_records", "remove_na_records",
    "rename", "clean_facades_number_column">>

RowsOf(frame) == {frame.rows[i] : i \in 1..Len(frame.rows)}

\* C1: every row of the table get_cleaned_data() returns after clean() has a
\* non-null value in every column.
C1_NoNullInCleanedTable ==
    last_get.t = "frame" => \A row \in RowsOf(last_get) : \A c \in Columns(row) : ~isna(row[c])

\* input row i parses to area 0.0 with a positive land_surface, its other cells are
\* those of the complete BaseRow, and no other row of the file shares its postcode
ZeroAreaCase(i) ==
    /\ area_remove_m2(csv[i].area) = PyNum(0)
    /\ PyFloat(csv[i].land_surface).ok /\ PyFloat(csv[i].land_surface).n > 0
    /\ [csv[i] EXCEPT !.area = BaseRow.area, !.land_surface = BaseRow.land_surface] = BaseRow
    /\ \A j \in 1..Len(csv) : j # i => csv[j].postcode \notin {csv[i].postcode, <<"N", "A">>}

\* C2: an otherwise complete, non-duplicate input row with area 0.0 and a positive
\* land_surface is in the cleaned table with area equal to its land_surface.
C2_ZeroAreaTakesLandSurface ==
    cleaned =>
        \A i \in 1..Len(csv) :
            ZeroAreaCase(i) =>
                \E row \in RowsOf(sales_data) :
                    /\ row.index = i - 1
                    /\ row.area = PyNum(PyFloat(csv[i].land_surface).n)

C4_CleanIdempotent ==
    [][cleaned => (cleaned' /\ pc' = "idle" /\ sales_data' = sales_data
                   /\ steps_run' = steps_run)]_vars

\* C4 witness: clean() was called again after a call that completed
C4_Witness ==
    /\ cleaned
    /\ clean_calls >= 2
    /\ last_get = sales_data

\* C5: until a clean() call has run every pipeline step, get_cleaned_data()
\* returns the not-ready value, which is no table (not even the empty one), and
\* write_to_csv() writes nothing; cleaned is set only after the last step and is
\* never reset.
C5_NotReadyUntilCleaned ==
    /\ [](/\ steps_run # PipelineOrder =>
                /\ last_get \in {NoFrame, None}
                /\ last_get # Frame(<<>>)
                /\ csv_out = NoFrame
          /\ cleaned => steps_run = PipelineOrder)
    /\ [][cleaned => cleaned']_vars

\* C5 witness: get_cleaned_data() answered not-ready after a clean() that a step
\* aborted
C5_Witness ==
    /\ ~cleaned
    /\ pc = "idle"
    /\ clean_calls > 0
    /\ steps_run # <<>>
    /\ last_get = None
    /\ csv_out = NoFrame

HasRegion(frame) == \A row \in RowsOf(frame) : "region" \in DOMAIN row

RegionExpected(row) ==
    /\ isna(row.region) <=> isna(row.postcode)
    /\ ~isna(row.postcode) =>
        LET p == PyInt(row.postcode.s).n
        IN  /\ PyInt(row.postcode.s).ok
            /\ (1000 <= p /\ p <= 1299) => row.region = PyStr(<<"B">>)
            /\ ((1300 <= p /\ p <= 1499) \/ (4000 <= p /\ p <= 7999)) => row.region = PyStr(<<"W">>)
            /\ (p < 1000 \/ (1500 <= p /\ p <= 3999) \/ p >= 8000) => row.region = PyStr(<<"F">>)
    /\ row.postcode = PyStr(<<"1", "0", "5", "0">>) => row.region = PyStr(<<"B">>)
    /\ row.postcode = PyStr(<<"1", "4", "0", "0">>) => row.region = PyStr(<<"W">>)
    /\ row.postcode = PyStr(<<"4", "5", "0", "0">>) => row.region = PyStr(<<"W">>)
    /\ row.postcode = PyStr(<<"2", "0", "0", "0">>) => row.region = PyStr(<<"F">>)
    /\ row.postcode = PyStr(<<"9", "9", "9", "9">>) => row.region = PyStr(<<"F">>)

\* C6: in every row after the region step, region is null exactly when postcode
\* is, and otherwise B for 1000-1299, W for 1300-1499 and 4000-7999, F for the rest.
C6_RegionFromPostcode ==
    (sales_data.t = "frame" /\ HasRegion(sales_data)) =>
        \A row \in RowsOf(sales_data) : RegionExpected(row)

\* C6 witness: a cleaned table with a Walloon row whose postcode came from its
\* locality, and a Brussels row
C6_Witness ==
    /\ cleaned
    /\ \E row \in RowsOf(sales_data) :
        row.postcode = PyStr(<<"1", "4", "0", "0">>) /\ row.region = PyStr(<<"W">>)
    /\ \E row \in RowsOf(sales_data) : row.region = PyStr(<<"B">>)

\* C8: every row of the cleaned table has price > 0 and area > 0.
C8_PositivePriceAndArea ==
    last_get.t = "frame" =>
        \A row \in RowsOf(last_get) :
            /\ row.price.t = "num" /\ row.price.n > 0
            /\ row.area.t = "num" /\ row.area.n > 0

\* the first four characters of text that are a digit 1-9 and three digits
HasPostcodeAt(x, i) ==
    /\ i + 3 <= Len(x)
    /\ x[i] \in Digits \ {"0"}
    /\ \A k \in (i + 1)..(i + 3) : x[k] \in Digits

\* what the merge step is specified to do to one row
MergedRow(before, after) ==
    /\ DOMAIN after = DOMAIN before \ {"locality"}
    /\ \A c \in DOMAIN after \ {"postcode"} : after[c] = before[c]
    /\ ~isna(before.postcode) => after.postcode = before.postcode
    /\ isna(before.postcode) =>
        IF before.locality.t = "str" /\ \E i \in 1..Len(before.locality.s) :
                                            HasPostcodeAt(before.locality.s, i)
        THEN \E i \in 1..Len(before.locality.s) :
                /\ HasPostcodeAt(before.locality.s, i)
                /\ \A k \in 1..(i - 1) : ~HasPostcodeAt(before.locality.s, k)
                /\ after.postcode = PyStr(SubSeq(before.locality.s, i, i + 3))
        ELSE isna(after.postcode)

\* C10: the merge step gives every row with a null postcode, whatever its locality
\* holds (text or null), the first [1-9][0-9][0-9][0-9] of the locality or leaves
\* it null, changes no other postcode and no other column, and removes locality.
C10_MergeStep ==
    [][pc = "merge_postcodes_localities_columns" =>
          /\ pc' = "add_region_column"
          /\ Len(sales_data'.rows) = Len(sales_data.rows)
          /\ \A i \in 1..Len(sales_data.rows) :
                MergedRow(sales_data.rows[i], sales_data'.rows[i])]_vars

----------------------------------------------------------------------------
(* The scalar parsers applied to one argument each *)

ProbeChars == {"0", "1", " ", "-", ".", "m"}

GeneratedTexts == UNION {[1..k -> ProbeChars] : k \in 0..MaxTextLen}

NamedTexts == {
    <<"t", "r", "u", "e">>, <<"T", "R", "U", "E">>, <<"T", "r", "u", "e">>,
    <<"t", "R", "u", "E">>,
    <<"f", "a", "l", "s", "e">>, <<"F", "A", "L", "S", "E">>, <<"F", "a", "l", "s", "e">>,
    <<"y", "e", "s">>, <<"m", "a", "y", "b", "e">>, <<"N", "A">>,
    <<"1", "2", "0", " ", "m", "2">>, <<"1", "2", " ", "x", " ", "1", "0", " ", "m">>,
    <<"1", "2", ".", "5">>, <<"+", "7">>, <<" ", "4", "2", " ">>,
    <<"€", " ", "1", ",", "2", "3", "4", ".", "0", "0", " ", "e", "n", "d">>,
    <<"n", "o", " ", "d", "i", "g", "i", "t", "s">>,
    <<"1", "0", "0", " ", "€", " ", "5", "0">>
}

ProbeTexts == GeneratedTexts \cup NamedTexts

\* what a caller can pass: the text of a cell, or a native boolean or number
ParserArgs ==
    {PyStr(s) : s \in ProbeTexts}
        \cup {PyBool(TRUE), PyBool(FALSE), PyNum(0), PyNum(Cent), PyNum(2 * Cent)}

InitParsers ==
    /\ csv = <<>>
    /\ sales_data = None
    /\ cleaned = FALSE
    /\ pc = "idle"
    /\ clean_calls = 0
    /\ steps_run = <<>>
    /\ dedup_in = NoFrame
    /\ last_get = NoFrame
    /\ csv_out = NoFrame
    /\ p_fn = "none"
    /\ p_arg \in ParserArgs
    /\ p_ret = None

pipelineVars ==
    <<csv, sales_data, cleaned, pc, clean_calls, steps_run, dedup_in, last_get, csv_out>>

CallBoolOrKeep ==
    /\ p_fn = "none"
    /\ p_fn' = "bool_or_keep"
    /\ p_ret' = bool_or_keep(p_arg)
    /\ UNCHANGED <<p_arg, pipelineVars>>

CallAreaRemoveM2 ==
    /\ p_fn = "none"
    /\ p_arg.t = "str"
    /\ p_fn' = "area_remove_m2"
    /\ p_ret' = area_remove_m2(p_arg.s)
    /\ UNCHANGED <<p_arg, pipelineVars>>

CallPriceConverter ==
    /\ p_fn = "none"
    /\ p_arg.t = "str"
    /\ p_fn' = "price_converter"
    /\ p_ret' = price_converter(p_arg.s)
    /\ UNCHANGED <<p_arg, pipelineVars>>

CallFloatOrZero ==
    /\ p_fn = "none"
    /\ p_arg.t = "str"
    /\ p_fn' = "float_or_zero"
    /\ p_ret' = float_or_zero(p_arg.s)
    /\ UNCHANGED <<p_arg, pipelineVars>>

CallFloatOrTextToNan ==
    /\ p_fn = "none"
    /\ p_arg.t = "str"
    /\ p_fn' = "float_or_text_to_nan"
    /\ p_ret' = float_or_text_to_nan(p_arg.s)
    /\ UNCHANGED <<p_arg, pipelineVars>>

NextParsers ==
    \/ CallBoolOrKeep
    \/ CallAreaRemoveM2
    \/ CallPriceConverter
    \/ CallFloatOrZero
    \/ CallFloatOrTextToNan

SpecParsers == InitParsers /\ [][NextParsers]_vars

----------------------------------------------------------------------------
(* Claims about the scalar parsers *)

AnyCase(s, lower) ==
    /\ Len(s) = Len(lower)
    /\ \A i \in 1..Len(s) : s[i] = lower[i] \/ s[i] = UpperChar(lower[i])

\* the result the tri-state boolean parser is specified to give
TriStateExpected(x) ==
    CASE x.t = "str" /\ (x.s = <<"1">> \/ AnyCase(x.s, <<"t", "r", "u", "e">>)) -> PyBool(TRUE)
      [] x.t = "str" /\ (x.s = <<"0">> \/ AnyCase(x.s, <<"f", "a", "l", "s", "e">>)) -> PyBool(FALSE)
      [] x.t = "bool" -> x
      [] x.t = "num" /\ x.n = Cent -> PyBool(TRUE)
      [] x.t = "num" /\ x.n = 0 -> PyBool(FALSE)
      [] OTHER -> None

\* C7: bool_or_keep returns for every input, without raising, true for "1" and
\* any-case "true", false for "0" and any-case "false", a native boolean
\* itself, true/false for numeric 1/0, and null for everything else.
C7_TriStateBool ==
    p_fn = "bool_or_keep" => p_ret = TriStateExpected(p_arg)

\* the positions <<i, j>> of the whitespace-separated tokens of x
TokenSpans(x) ==
    {sp \in (1..Len(x)) \X (1..Len(x)) :
        /\ sp[1] <= sp[2]
        /\ \A k \in sp[1]..sp[2] : x[k] \notin Whitespace
        /\ sp[1] = 1 \/ x[sp[1] - 1] \in Whitespace
        /\ sp[2] = Len(x) \/ x[sp[2] + 1] \in Whitespace}

DigitSpans(x) == {sp \in TokenSpans(x) : \A k \in sp[1]..sp[2] : x[k] \in Digits}

IsIntegerText(x) ==
    \E i \in 1..Len(x), j \in 1..Len(x) :
        /\ i <= j
        /\ \A k \in 1..Len(x) : (k < i \/ k > j) => x[k] \in Whitespace
        /\ \A k \in i..j : x[k] \in Digits \/ (k = i /\ k < j /\ x[k] \in {"+", "-"})

\* C9 (as amended): area_remove_m2 returns the integer itself when the text
\* parses directly as an integer; otherwise, with the digit-only
\* whitespace-separated tokens of the text, that integer when there is exactly
\* one, null when there is none, and the sentinel False, distinct from null,
\* when there is more than one.
C9_AreaIntegerOrTokens ==
    p_fn = "area_remove_m2" =>
        LET x == p_arg.s
            n == Cardinality(DigitSpans(x))
        IN  IF IsIntegerText(x)
            THEN p_ret.t = "num" /\ p_ret.n = PyInt(x).n * Cent
            ELSE /\ n = 1 =>
                     LET sp == CHOOSE sp \in DigitSpans(x) : TRUE
                     IN  p_ret = PyNum(DigitsToInt(SubSeq(x, sp[1], sp[2])) * Cent)
                 /\ n = 0 => p_ret = None
                 /\ n > 1 => p_ret = PyBool(FALSE) /\ p_ret # None

\* C9 witness: a text with several digit tokens was parsed
C9_Witness ==
    /\ p_fn = "area_remove_m2"
    /\ p_arg.s = <<"1", "2", " ", "x", " ", "1", "0", " ", "m">>
    /\ p_ret = PyBool(FALSE)

\* C9 as stated: a text that parses directly as a number gives that number
C9_AreaNumericOrTokens ==
    p_fn = "area_remove_m2" =>
        LET x == p_arg.s
            n == Cardinality(DigitSpans(x))
        IN  IF PyFloat(x).ok
            THEN p_ret = PyNum(PyFloat(x).n)
            ELSE /\ n = 1 =>
                     LET sp == CHOOSE sp \in DigitSpans(x) : TRUE
                     IN  p_ret = PyNum(DigitsToInt(SubSeq(x, sp[1], sp[2])) * Cent)
                 /\ n = 0 => p_ret = None
                 /\ n > 1 => p_ret = PyBool(FALSE) /\ p_ret # None

====
